---- MODULE Spec2Model ----
(***************************************************************************)
(* docs2vector: the indexing pipeline of src/lib/Docs2Vector.js            *)
(* (Docs2Vector.run), of the command-line script src/script.js (main) and  *)
(* of the SDK example script src/unnamed/part_000 (main).                  *)
(*                                                                         *)
(* Strings that the code takes apart (the repository URL, file names) are  *)
(* sequences of one-character strings.  A path is a sequence of names.     *)
(* Every await of the code is a separate step, so that two run() calls on  *)
(* one Docs2Vector instance interleave exactly at the await points.        *)
(***************************************************************************)
EXTENDS Integers, Sequences, FiniteSets, TLC

\* ------------------------------------------------------------------ bounds
\* Number of run() calls (or script invocations) in one behaviour.
MaxRuns == 2
\* batchSize is drawn from 1..MaxBatchSize (the code fixes it to 100).
MaxBatchSize == 2

Runs == 1..MaxRuns

\* --------------------------------------------------------- string helpers
\* String.prototype.startsWith
StartsWith(s, p) ==
    /\ Len(s) >= Len(p)
    /\ SubSeq(s, 1, Len(p)) = p

\* the `$`-anchored tail of a regular expression match
EndsWith(s, p) ==
    /\ Len(s) >= Len(p)
    /\ SubSeq(s, Len(s) - Len(p) + 1, Len(s)) = p

\* String.prototype.indexOf, 1-based; 0 when p does not occur in s
IndexOf(s, p) ==
    LET hits == {k \in 1..(Len(s) - Len(p) + 1) : SubSeq(s, k, k + Len(p) - 1) = p}
    IN  IF hits = {} THEN 0 ELSE CHOOSE k \in hits : \A j \in hits : k <= j

\* String.prototype.replace(p, r) with a string pattern: the FIRST occurrence only
ReplaceFirst(s, p, r) ==
    LET k == IndexOf(s, p)
    IN  IF k = 0 THEN s
        ELSE SubSeq(s, 1, k - 1) \o r \o SubSeq(s, k + Len(p), Len(s))

\* String.prototype.split(c) for a one-character separator
RECURSIVE Split(_, _)
Split(s, c) ==
    LET k == IndexOf(s, <<c>>)
    IN  IF k = 0 THEN <<s>>
        ELSE <<SubSeq(s, 1, k - 1)>> \o Split(SubSeq(s, k + 1, Len(s)), c)

\* Array.prototype.pop: the last element
Pop(a) == a[Len(a)]

DotGit == <<".", "g", "i", "t">>

\* repoUrl.split('/').pop().replace('.git', '')
DeriveNamespace(repoUrl) == ReplaceFirst(Pop(Split(repoUrl, "/")), DotGit, <<>>)

\* ------------------------------------------------------------ the inputs
\* "o/d", "o/d.git", "o/d.gith" (a name such as d.github.io, cut short)
UrlPlain == <<"o", "/", "d">>
UrlGit == <<"o", "/", "d", ".", "g", "i", "t">>
UrlGitInside == <<"o", "/", "d", ".", "g", "i", "t", "h">>
RepoUrls == {UrlPlain, UrlGit, UrlGitInside}
\* process.argv[2] of a script started without an argument
NoArg == <<>>

\* File names.
NameA == <<"a", ".", "m", "d">>
NameB == <<"b", ".", "m", "d", "x">>
NameC == <<"c", ".", "m", "d">>
NameZ == <<"z", ".", "m", "d">>
NameDocs == <<"d">>
NameDotGit == <<".", "g">>
NameTxt == <<"n", ".", "t", "x", "t">>
NameNoDot == <<"a", "m", "d">>
NameDotDirMd == <<".", "n", ".", "m", "d">>
NameDirMd == <<"e", ".", "m", "d">>

File(parent, name, chunks) ==
    [parent |-> parent, name |-> name, isDir |-> FALSE, chunks |-> chunks]
Dir(parent, name) ==
    [parent |-> parent, name |-> name, isDir |-> TRUE, chunks |-> <<>>]

\* A tree is a sequence of entries; an entry's parent is an index (0: the root).
\* A file's chunks are the texts the splitter returns for its content.
\* Only a hidden directory, with a Markdown file in it.
TreeEmpty == <<Dir(0, NameDotGit), File(1, NameC, <<"t1">>)>>
\* a.md (2 chunks), d/b.mdx (1 chunk), d/z.md (empty), .g/c.md, n.txt
TreeDocs ==
    <<File(0, NameA, <<"t1", "t2">>), Dir(0, NameDocs), File(2, NameB, <<"t3">>),
      File(2, NameZ, <<>>), Dir(0, NameDotGit), File(5, NameC, <<"t1">>),
      File(0, NameTxt, <<"t2">>)>>
\* a.md and a hidden directory named .n.md
TreeDotDirMd ==
    <<File(0, NameA, <<"t1">>), Dir(0, NameDotDirMd), File(2, NameC, <<"t2">>)>>
\* a directory named e.md holding a.md (the same text twice), and the file amd
TreeDirMd ==
    <<Dir(0, NameDirMd), File(1, NameA, <<"t1", "t1">>), File(0, NameNoDot, <<"t2">>)>>
Trees == {TreeEmpty, TreeDocs, TreeDotDirMd, TreeDirMd}

TempDir == <<<<"t", "e", "m", "p", "_", "r", "e", "p", "o">>>>

\* ----------------------------------------------------------- file system
\* fs.readdir(dir, { withFileTypes: true }): the entries of directory d, in order
Readdir(t, d) == SelectSeq([k \in 1..Len(t) |-> k], LAMBDA k : t[k].parent = d)

Dot == <<".">>

\* file.name.match(/\.(md|mdx)$/)
MatchesMarkdown(name) ==
    \/ EndsWith(name, <<".", "m", "d">>)
    \/ EndsWith(name, <<".", "m", "d", "x">>)

RECURSIVE FindIn(_, _, _)
\* the loop of #findMarkdownFiles over the entries of dir still to visit
FindIn(t, dir, entries) ==
    IF entries = <<>> THEN <<>>
    ELSE LET file == t[Head(entries)]
             fullPath == Append(dir, file.name)
             found ==
                 IF file.isDir /\ ~StartsWith(file.name, Dot)
                 THEN FindIn(t, fullPath, Readdir(t, Head(entries)))
                 ELSE IF MatchesMarkdown(file.name) THEN <<fullPath>>
                 ELSE <<>>
         IN  found \o FindIn(t, dir, Tail(entries))

\* #findMarkdownFiles(repoDir): the paths found, in traversal order
FindMarkdownFiles(t) == FindIn(t, TempDir, Readdir(t, 0))

RECURSIVE LookupFrom(_, _, _)
\* the entry that path names below directory d, 0 when there is none
LookupFrom(t, d, path) ==
    LET hits == {k \in 1..Len(t) : t[k].parent = d /\ t[k].name = Head(path)}
    IN  IF path = <<>> THEN d
        ELSE IF hits = {} THEN 0
        ELSE IF Len(path) = 1 THEN CHOOSE k \in hits : TRUE
        ELSE LookupFrom(t, CHOOSE k \in hits : TRUE, Tail(path))

\* the entry fs.readFile(filePath) opens: filePath is TempDir followed by names
Lookup(t, filePath) == LookupFrom(t, 0, Tail(filePath))

\* path.basename(filePath)
Basename(filePath) == filePath[Len(filePath)]

\* path.extname(filePath).substring(1): what follows the last dot of the base
\* name, nothing when the only dot is the first character
ExtName(filePath) ==
    LET name == Basename(filePath)
        dots == {k \in 1..Len(name) : name[k] = "."}
        last == CHOOSE k \in dots : \A j \in dots : j <= k
    IN  IF dots = {} \/ last = 1 THEN <<>> ELSE SubSeq(name, last + 1, Len(name))

\* ------------------------------------------------------- chunk records
\* crypto.createHash('md5').update(content).digest('hex')
Md5(content) ==
    CASE content = "t1" -> "9a0"
      [] content = "t2" -> "3fe"
      [] content = "t3" -> "c41"
      [] OTHER -> "d41"

\* Docs2Vector.#generateId
generateId(content) == Md5(content)

\* mutant of Base: the id is made of the content and the timestamp
BaseIdOfTime(filePath, pageContent, timestamp) ==
    [id |-> <<generateId(pageContent), timestamp>>,
     metadata |-> [fileName |-> Basename(filePath), filePath |-> filePath,
                   fileType |-> ExtName(filePath), timestamp |-> timestamp]]

\* the vector the embedding provider returns for a text
embedDocuments(text) ==
    CASE text = "t1" -> "v1"
      [] text = "t2" -> "v2"
      [] text = "t3" -> "v3"
      [] OTHER -> "v0"

\* `base` of #processFile: id and metadata of one chunk
Base(filePath, pageContent, timestamp) ==
    [id |-> generateId(pageContent),
     metadata |-> [fileName |-> Basename(filePath), filePath |-> filePath,
                   fileType |-> ExtName(filePath), timestamp |-> timestamp]]

\* return { ...base, data: chunk.pageContent }
DataRecord(base, pageContent) ==
    [id |-> base.id, metadata |-> base.metadata, data |-> pageContent]

\* mutant of VectorRecord: the vector is not attached to the record
VectorRecordDropsVector(base, vector, pageContent) ==
    [id |-> base.id, metadata |-> base.metadata, data |-> pageContent]

\* return { ...base, vector, data: chunk.pageContent }
VectorRecord(base, vector, pageContent) ==
    [id |-> base.id, metadata |-> base.metadata, vector |-> vector, data |-> pageContent]

\* ------------------------------------------------------------- batches
Min(a, b) == IF a <= b THEN a ELSE b

\* Array.prototype.slice(from, to) with 0-based bounds, to exclusive
Slice(a, from, to) == SubSeq(a, from + 1, Min(to, Len(a)))

\* Math.ceil(n / size)
CeilDiv(n, size) == (n + size - 1) \div size

RECURSIVE UpsertAll(_, _, _)
\* the vector store's upsert: each record replaces the record of its id, in its
\* namespace
UpsertAll(st, ns, batch) ==
    IF batch = <<>> THEN st
    ELSE LET rec == Head(batch)
             kept == {e \in st : ~(e.ns = ns /\ e.rec.id = rec.id)}
         IN  UpsertAll(kept \cup {[ns |-> ns, rec |-> rec]}, ns, Tail(batch))

\* ---------------------------------------------------------------- state
VARIABLES
    mode,        \* "lib": run() called on an instance; "sdk": part_000; "cli": script.js
    useOpenAI,   \* OPENAI_API_KEY is set: this.embeddings (useOpenAI in script.js)
    tree,        \* the content of the remote repository
    batchSize,   \* const batchSize
    namespace,   \* this.namespace
    tempRepo,    \* the directory temp_repo exists and holds a clone
    store,       \* the vector store: a set of [ns, rec]
    now,         \* the clock new Date().getTime() reads: it advances between calls
    run          \* the state of each run() call (each main() of a script)

vars == <<mode, useOpenAI, tree, batchSize, namespace, tempRepo, store, now, run>>
cfg == <<mode, useOpenAI, tree, batchSize>>

NoDone ==
    [clone |-> FALSE, find |-> FALSE, reads |-> 0, embeds |-> 0, upserts |-> 0,
     cleanup |-> FALSE]

IdleRun ==
    [pc |-> "idle",          \* the await the call is suspended at
     repoUrl |-> <<>>,       \* run's argument (process.argv[2])
     repoName |-> <<>>,      \* the namespace derived from repoUrl
     markdownFiles |-> <<>>,
     fileIdx |-> 1,          \* position of `file` in markdownFiles
     chunkBuf |-> <<>>,      \* the chunks of `file` inside Promise.all
     pending |-> {},         \* chunks whose embedDocuments call is outstanding
     allChunks |-> <<>>,
     i |-> 0,
     calls |-> <<>>,         \* the index.upsert calls issued, in order
     progress |-> <<>>,      \* the "Processed batch k of m" lines, as <<k, m>>
     logged |-> <<>>,        \* the console.error lines
     error |-> "none",       \* the error caught
     settled |-> "pending",  \* the promise run() returned
     exitCode |-> -1,        \* the exit status of the script, -1 while it runs
     done |-> NoDone,        \* stages completed successfully
     after |-> {},           \* the calls that had succeeded when this one began
     snap |-> {}]            \* ids in the namespace when this call succeeded

Init ==
    /\ mode \in {"lib", "sdk", "cli"}
    /\ useOpenAI \in BOOLEAN
    /\ tree \in Trees
    /\ batchSize \in 1..MaxBatchSize
    /\ namespace = <<>>
    /\ tempRepo = FALSE
    /\ store = {}
    /\ now = 0
    /\ run = [r \in Runs |-> IdleRun]

\* ------------------------------------------------------ steps inside run
\* mutant of CatchRun: the error is logged and not thrown again
CatchRunSwallows(rec, error) ==
    [rec EXCEPT !.pc = "resolved", !.logged = Append(@, error), !.error = error,
                !.settled = "resolved"]

\* catch (error) { console.error('Error:', error.message); throw error; }
CatchRun(rec, error) ==
    [rec EXCEPT !.pc = "rejected", !.logged = Append(@, error), !.error = error,
                !.settled = "rejected"]

\* catch (error) { console.error('Error:', error.message); process.exit(1); }
CatchMain(rec, error) ==
    [rec EXCEPT !.pc = "exited", !.logged = Append(@, error), !.error = error,
                !.exitCode = 1]

Catch(rec, error) == IF mode = "cli" THEN CatchMain(rec, error) ELSE CatchRun(rec, error)

\* const batch = allChunks.slice(i, i + batchSize); index.upsert(batch, { namespace })
IssueUpsert(rec, ns) ==
    [rec EXCEPT !.pc = "upsert",
                !.calls = Append(@, [namespace |-> ns,
                                     batch |-> Slice(rec.allChunks, rec.i, rec.i + batchSize),
                                     status |-> "sent"])]

\* mutant of BatchLoop: the loop stops one batch early (i + batchSize < length)
BatchLoopStopsEarly(rec, ns) ==
    IF rec.i + batchSize < Len(rec.allChunks) THEN IssueUpsert(rec, ns)
    ELSE [rec EXCEPT !.pc = "cleanup"]

\* the head of the batch loop: i < allChunks.length, else on to fs.rm(repoDir)
BatchLoop(rec, ns) ==
    IF rec.i < Len(rec.allChunks) THEN IssueUpsert(rec, ns)
    ELSE [rec EXCEPT !.pc = "cleanup"]

\* mutant of FileLoop: the chunks gathered so far are upserted as soon as there
\* are any, before the files that remain are read
FileLoopUpsertsEarly(rec, ns) ==
    IF rec.fileIdx <= Len(rec.markdownFiles) /\ rec.allChunks = <<>>
    THEN [rec EXCEPT !.pc = "read"]
    ELSE BatchLoop([rec EXCEPT !.i = 0], ns)

\* the head of the file loop: the next file's fs.readFile, else on to the batches
FileLoop(rec, ns) ==
    IF rec.fileIdx <= Len(rec.markdownFiles) THEN [rec EXCEPT !.pc = "read"]
    ELSE BatchLoop([rec EXCEPT !.i = 0], ns)

\* mutant of FileDone: allChunks = [...chunks, ...allChunks]
FileDonePrepends(rec, chunks, ns) ==
    FileLoop([rec EXCEPT !.allChunks = chunks \o @, !.fileIdx = @ + 1,
                         !.chunkBuf = <<>>, !.done.reads = @ + 1], ns)

\* allChunks = [...allChunks, ...chunks], then the next iteration of the file loop
FileDone(rec, chunks, ns) ==
    FileLoop([rec EXCEPT !.allChunks = @ \o chunks, !.fileIdx = @ + 1,
                         !.chunkBuf = <<>>, !.done.reads = @ + 1], ns)

\* the namespace an upsert call issued now carries
NamespaceNow(rec) == IF mode = "cli" THEN rec.repoName ELSE namespace

Active(r) == run[r].pc \notin {"idle", "resolved", "rejected", "exited", "gone"}
Succeeded(r) == run[r].done.cleanup /\ run[r].error = "none" /\ ~Active(r)
\* the ids stored under a namespace
IdsIn(st, ns) == {e.rec.id : e \in {x \in st : x.ns = ns}}

\* -------------------------------------------------------------- actions
Set(r, rec) == run' = [run EXCEPT ![r] = rec]

\* The locals of a call that has ended are gone with it. When a new call begins,
\* the model keeps what the call before it left if that call succeeded, to
\* compare the two, and drops every other ended call.
Gone == [IdleRun EXCEPT !.pc = "gone"]

Begin(r, rec) ==
    /\ now' = now + 1
    /\ run' = [q \in Runs |->
                  IF q = r THEN rec
                  ELSE IF q > r \/ Active(q) \/ (q = r - 1 /\ Succeeded(q)) THEN run[q]
                  ELSE Gone]

\* calls are numbered in the order they are made
NextToStart(r) ==
    /\ run[r].pc = "idle"
    /\ \A q \in Runs : q < r => run[q].pc # "idle"

\* the synchronous head of run(): up to the fs.rm of #cloneRepository
StartRun(rec, repoUrl) ==
    [rec EXCEPT !.pc = "clone_rm", !.repoUrl = repoUrl,
                !.repoName = DeriveNamespace(repoUrl),
                !.after = {q \in Runs : Succeeded(q)}]

\* How many earlier calls may be suspended when the caller calls run() again:
\* one, and none over the repository with several files (there the caller
\* awaits each call), which keeps the interleavings explored finite and small.
MayCall ==
    /\ \A p, q \in Runs : Active(p) /\ Active(q) => p = q
    /\ tree = TreeDocs => \A q \in Runs : ~Active(q)

\* a caller calls run(repoUrl) on the instance, also while an earlier call is
\* suspended at an await
Run(r, repoUrl) ==
    /\ mode = "lib"
    /\ NextToStart(r)
    /\ MayCall
    /\ namespace' = DeriveNamespace(repoUrl)
    /\ Begin(r, StartRun(run[r], repoUrl))
    /\ UNCHANGED <<cfg, tempRepo, store>>

\* part_000 is started: new Docs2Vector(), then converter.run(githubRepoUrl)
SdkMain(r) ==
    /\ mode = "sdk"
    /\ NextToStart(r)
    /\ \A q \in Runs : q < r => run[q].pc = "exited"
    /\ namespace' = DeriveNamespace(UrlPlain)
    /\ Begin(r, StartRun(run[r], UrlPlain))
    /\ UNCHANGED <<cfg, tempRepo, store>>

\* script.js is started with or without a repository URL
CliMain(r, arg) ==
    /\ mode = "cli"
    /\ NextToStart(r)
    /\ \A q \in Runs : q < r => run[q].pc = "exited"
    /\ IF arg = NoArg
       THEN Begin(r, CatchMain([run[r] EXCEPT !.after = {q \in Runs : Succeeded(q)}],
                               "noarg"))
       ELSE Begin(r, StartRun(run[r], arg))
    /\ UNCHANGED <<cfg, namespace, tempRepo, store>>

\* await fs.rm(tempDir, { recursive: true, force: true }) of #cloneRepository
RmOldOk(r) ==
    /\ run[r].pc = "clone_rm"
    /\ tempRepo' = FALSE
    /\ Set(r, [run[r] EXCEPT !.pc = "clone_git"])
    /\ UNCHANGED <<cfg, namespace, store, now>>

\* that fs.rm fails: script.js ignores it, Docs2Vector.js does not
RmOldFail(r) ==
    /\ run[r].pc = "clone_rm"
    /\ IF mode = "cli" THEN Set(r, [run[r] EXCEPT !.pc = "clone_git"])
       ELSE Set(r, Catch(run[r], "rm"))
    /\ UNCHANGED <<cfg, namespace, tempRepo, store, now>>

\* await git.clone(repoUrl, tempDir): git refuses a directory that holds a clone
CloneOk(r) ==
    /\ run[r].pc = "clone_git"
    /\ ~tempRepo
    /\ tempRepo' = TRUE
    /\ Set(r, [run[r] EXCEPT !.pc = "find", !.done.clone = TRUE])
    /\ UNCHANGED <<cfg, namespace, store, now>>

CloneFail(r) ==
    /\ run[r].pc = "clone_git"
    /\ Set(r, Catch(run[r], "clone"))
    /\ UNCHANGED <<cfg, namespace, tempRepo, store, now>>

\* await this.#findMarkdownFiles(repoDir)
FindOk(r) ==
    /\ run[r].pc = "find"
    /\ tempRepo
    /\ Set(r, FileLoop([run[r] EXCEPT !.markdownFiles = FindMarkdownFiles(tree),
                                      !.done.find = TRUE],
                       NamespaceNow(run[r])))
    /\ UNCHANGED <<cfg, namespace, tempRepo, store, now>>

FindFail(r) ==
    /\ run[r].pc = "find"
    /\ Set(r, Catch(run[r], "find"))
    /\ UNCHANGED <<cfg, namespace, tempRepo, store, now>>

\* #processFile up to Promise.all: the file is read and split, every chunk's
\* callback runs to its embedDocuments call, or to its end without a provider
ReadOk(r) ==
    LET rec == run[r]
        timestamp == now
        filePath == rec.markdownFiles[rec.fileIdx]
        chunks == tree[Lookup(tree, filePath)].chunks
        base(k) == Base(filePath, chunks[k], timestamp)
    IN  /\ rec.pc = "read"
        /\ tempRepo
        /\ Lookup(tree, filePath) # 0
        /\ ~tree[Lookup(tree, filePath)].isDir
        /\ IF useOpenAI /\ chunks # <<>>
           THEN Set(r, [rec EXCEPT !.pc = "embed",
                                   !.chunkBuf = [k \in 1..Len(chunks) |->
                                       [base |-> base(k), pageContent |-> chunks[k],
                                        vector |-> "none"]],
                                   !.pending = 1..Len(chunks)])
           ELSE Set(r, FileDone(rec, [k \in 1..Len(chunks) |->
                                         DataRecord(base(k), chunks[k])],
                                NamespaceNow(rec)))
        /\ UNCHANGED <<cfg, namespace, tempRepo, store, now>>

\* fs.readFile fails: the file is gone, or filePath names a directory
ReadFail(r) ==
    /\ run[r].pc = "read"
    /\ Set(r, Catch(run[r], "read"))
    /\ UNCHANGED <<cfg, namespace, tempRepo, store, now>>

\* mutant of EmbedOk: the file is finished when the first call returns (a race in
\* place of Promise.all), the other calls still outstanding
EmbedOkFirstWins(r, k) ==
    LET rec == run[r]
        buf == [rec.chunkBuf EXCEPT
                   ![k].vector = embedDocuments(rec.chunkBuf[k].pageContent)]
        got == [rec EXCEPT !.chunkBuf = buf, !.pending = @ \ {k}, !.done.embeds = @ + 1]
    IN  /\ rec.pc = "embed"
        /\ k \in rec.pending
        /\ Set(r, FileDone(got, [j \in 1..Len(buf) |->
                                    VectorRecord(buf[j].base, buf[j].vector,
                                                 buf[j].pageContent)],
                           NamespaceNow(rec)))
        /\ UNCHANGED <<cfg, namespace, tempRepo, store, now>>

\* the embedDocuments call of chunk k returns; Promise.all resolves with the last
EmbedOk(r, k) ==
    LET rec == run[r]
        buf == [rec.chunkBuf EXCEPT
                   ![k].vector = embedDocuments(rec.chunkBuf[k].pageContent)]
        got == [rec EXCEPT !.chunkBuf = buf, !.pending = @ \ {k}, !.done.embeds = @ + 1]
    IN  /\ rec.pc = "embed"
        /\ k \in rec.pending
        /\ IF got.pending = {}
           THEN Set(r, FileDone(got, [j \in 1..Len(buf) |->
                                         VectorRecord(buf[j].base, buf[j].vector,
                                                      buf[j].pageContent)],
                                NamespaceNow(rec)))
           ELSE Set(r, got)
        /\ UNCHANGED <<cfg, namespace, tempRepo, store, now>>

\* the embedDocuments call of chunk k fails: Promise.all rejects at once
EmbedFail(r, k) ==
    /\ run[r].pc = "embed"
    /\ k \in run[r].pending
    /\ Set(r, Catch([run[r] EXCEPT !.pending = @ \ {k}], "embed"))
    /\ UNCHANGED <<cfg, namespace, tempRepo, store, now>>

\* await this.index.upsert(batch, ...) returns: the progress line, i += batchSize
UpsertOk(r) ==
    LET rec == run[r]
        n == Len(rec.calls)
        sent == [rec EXCEPT !.calls[n].status = "ok",
                            !.progress = Append(@, <<(rec.i \div batchSize) + 1,
                                                     CeilDiv(Len(rec.allChunks), batchSize)>>),
                            !.i = @ + batchSize,
                            !.done.upserts = @ + 1]
    IN  /\ rec.pc = "upsert"
        /\ store' = UpsertAll(store, rec.calls[n].namespace, rec.calls[n].batch)
        /\ Set(r, BatchLoop(sent, NamespaceNow(rec)))
        /\ UNCHANGED <<cfg, namespace, tempRepo, now>>

\* mutant of UpsertFail: the failed batch is skipped and the loop goes on
UpsertFailSkips(r) ==
    LET rec == run[r]
        n == Len(rec.calls)
        skipped == [rec EXCEPT !.calls[n].status = "failed", !.i = @ + batchSize]
    IN  /\ rec.pc = "upsert"
        /\ Set(r, BatchLoop(skipped, NamespaceNow(rec)))
        /\ UNCHANGED <<cfg, namespace, tempRepo, store, now>>

\* the upsert call fails: the catch block of run
UpsertFail(r) ==
    LET rec == run[r]
    IN  /\ rec.pc = "upsert"
        /\ Set(r, Catch([rec EXCEPT !.calls[Len(rec.calls)].status = "failed"], "upsert"))
        /\ UNCHANGED <<cfg, namespace, tempRepo, store, now>>

\* await fs.rm(repoDir, { recursive: true, force: true }) at the end of the try
CleanupOk(r) ==
    LET rec == [run[r] EXCEPT !.done.cleanup = TRUE,
                              !.snap = IdsIn(store, run[r].repoName)]
    IN  /\ run[r].pc = "cleanup"
        /\ tempRepo' = FALSE
        /\ IF mode = "cli" THEN Set(r, [rec EXCEPT !.pc = "info"])
           ELSE Set(r, [rec EXCEPT !.pc = "resolved", !.settled = "resolved"])
        /\ UNCHANGED <<cfg, namespace, store, now>>

CleanupFail(r) ==
    /\ run[r].pc = "cleanup"
    /\ Set(r, Catch(run[r], "cleanup"))
    /\ UNCHANGED <<cfg, namespace, tempRepo, store, now>>

\* script.js: await index.info(), then main returns and the process ends
InfoOk(r) ==
    /\ run[r].pc = "info"
    /\ Set(r, [run[r] EXCEPT !.pc = "exited", !.exitCode = 0])
    /\ UNCHANGED <<cfg, namespace, tempRepo, store, now>>

InfoFail(r) ==
    /\ run[r].pc = "info"
    /\ Set(r, CatchMain(run[r], "info"))
    /\ UNCHANGED <<cfg, namespace, tempRepo, store, now>>

\* part_000: after await converter.run(), the success lines or the catch; main
\* returns either way and the process ends
SdkMainReturn(r) ==
    /\ mode = "sdk"
    /\ run[r].pc \in {"resolved", "rejected"}
    /\ Set(r, [run[r] EXCEPT !.pc = "exited", !.exitCode = 0,
                             !.logged = IF run[r].pc = "rejected"
                                        THEN Append(@, run[r].error) ELSE @])
    /\ UNCHANGED <<cfg, namespace, tempRepo, store, now>>

Next ==
    \E r \in Runs :
        \/ \E repoUrl \in RepoUrls : Run(r, repoUrl)
        \/ SdkMain(r)
        \/ \E arg \in RepoUrls \cup {NoArg} : CliMain(r, arg)
        \/ RmOldOk(r)
        \/ RmOldFail(r)
        \/ CloneOk(r)
        \/ CloneFail(r)
        \/ FindOk(r)
        \/ FindFail(r)
        \/ ReadOk(r)
        \/ ReadFail(r)
        \/ \E k \in run[r].pending : EmbedOk(r, k)
        \/ \E k \in run[r].pending : EmbedFail(r, k)
        \/ UpsertOk(r)
        \/ UpsertFail(r)
        \/ CleanupOk(r)
        \/ CleanupFail(r)
        \/ InfoOk(r)
        \/ InfoFail(r)
        \/ SdkMainReturn(r)

Spec == Init /\ [][Next]_vars

\* ------------------------------------------------------------ properties
Terminated(r) == run[r].pc \in {"resolved", "rejected", "exited"}

RECURSIVE Concat(_)
\* the batches of a sequence of upsert calls, one after the other
Concat(calls) ==
    IF calls = <<>> THEN <<>> ELSE Head(calls).batch \o Concat(Tail(calls))

\* the batch loop of call r has ended without a failed upsert
BatchesDone(r) ==
    \/ run[r].pc \in {"cleanup", "info", "resolved"}
    \/ run[r].error \in {"cleanup", "info"}
    \/ run[r].pc = "exited" /\ run[r].error = "none"

\* C1: every terminated run that created the working copy temp_repo has removed
\* it, on the success path and on every failure path.
C1_CleanupOnEveryPath ==
    \A r \in Runs : Terminated(r) /\ run[r].done.clone => run[r].done.cleanup

\* C2: when the upsert call for batch k fails, it is the last call of the run
\* (no call for a later batch, no retry: the k calls carry batches 1..k), the
\* records of batches 1..k-1 are in the store, and the error reaches the caller
\* of run (the script exits with status 1 in script.js).
C2_FailedBatchAborts ==
    \A r \in Runs : \A k \in 1..Len(run[r].calls) :
        run[r].calls[k].status = "failed" =>
            /\ k = Len(run[r].calls)
            /\ \A j \in 1..k :
                   run[r].calls[j].batch
                       = Slice(run[r].allChunks, (j - 1) * batchSize, j * batchSize)
            /\ \A j \in 1..(k - 1) :
                   /\ run[r].calls[j].status = "ok"
                   /\ \A c \in 1..Len(run[r].calls[j].batch) :
                          run[r].calls[j].batch[c].id
                              \in IdsIn(store, run[r].calls[j].namespace)
            /\ run[r].error = "upsert"
            /\ IF mode = "cli" THEN run[r].pc = "exited" /\ run[r].exitCode = 1
               ELSE run[r].settled = "rejected"

\* C2 witness: the second of three batches failed after the first was stored.
C2_Witness ==
    \E r \in Runs :
        /\ Len(run[r].calls) = 2
        /\ run[r].calls[2].status = "failed"
        /\ Len(run[r].allChunks) > 2 * batchSize
        /\ run[r].settled = "rejected"
        /\ run[r].calls[1].batch[1].id \in IdsIn(store, run[r].calls[1].namespace)

\* C3: a run whose upserts all succeed issues ceil(n / batchSize) calls, each of
\* batchSize records except the last, which has 1..batchSize, and the batches in
\* call order make up the accumulated list.
C3_BatchesPartitionChunks ==
    \A r \in Runs :
        BatchesDone(r) =>
            LET n == Len(run[r].allChunks)
                m == Len(run[r].calls)
            IN  /\ m = CeilDiv(n, batchSize)
                /\ \A j \in 1..m :
                       /\ run[r].calls[j].status = "ok"
                       /\ Len(run[r].calls[j].batch) >= 1
                       /\ Len(run[r].calls[j].batch) <= batchSize
                       /\ j < m => Len(run[r].calls[j].batch) = batchSize
                /\ Concat(run[r].calls) = run[r].allChunks

\* C3 witness: three chunks were sent as a batch of two and a batch of one.
C3_Witness ==
    \E r \in Runs :
        /\ run[r].settled = "resolved"
        /\ Len(run[r].allChunks) = 3
        /\ Len(run[r].calls) = 2
        /\ Len(run[r].calls[1].batch) = 2
        /\ Len(run[r].calls[2].batch) = 1

\* the stages completed before the one whose failure is `error`
DoneBefore(rec, error) ==
    LET d == rec.done
        files == Len(rec.markdownFiles)
        none == d.reads = 0 /\ d.embeds = 0 /\ rec.calls = <<>> /\ ~d.cleanup
    IN  CASE error \in {"rm", "clone"} -> ~d.clone /\ ~d.find /\ none
          [] error = "find" -> d.clone /\ ~d.find /\ none
          [] error \in {"read", "embed"} ->
                 /\ d.clone /\ d.find /\ d.reads < files /\ d.reads = rec.fileIdx - 1
                 /\ rec.calls = <<>> /\ ~d.cleanup
          [] error = "upsert" ->
                 /\ d.clone /\ d.find /\ d.reads = files
                 /\ d.upserts = Len(rec.calls) - 1 /\ ~d.cleanup
          [] error = "cleanup" ->
                 /\ d.clone /\ d.find /\ d.reads = files
                 /\ d.upserts = Len(rec.calls) /\ ~d.cleanup
          [] OTHER -> FALSE

\* every stage of the call has succeeded
AllStagesDone(rec) ==
    /\ rec.done.clone
    /\ rec.done.find
    /\ rec.done.reads = Len(rec.markdownFiles)
    /\ useOpenAI => rec.done.embeds = Len(rec.allChunks)
    /\ rec.done.upserts = CeilDiv(Len(rec.allChunks), batchSize)
    /\ \A j \in 1..Len(rec.calls) : rec.calls[j].status = "ok"
    /\ rec.done.cleanup

\* C4: run() resolves only if every stage succeeded; when a stage fails, run logs
\* that error and rejects with it, and no later stage has been started.
C4_RunPropagatesFailure ==
    \A r \in Runs :
        mode # "cli" =>
            /\ run[r].settled = "resolved" =>
                   run[r].error = "none" /\ AllStagesDone(run[r])
            /\ run[r].error # "none" =>
                   /\ run[r].settled = "rejected"
                   /\ run[r].logged # <<>>
                   /\ Head(run[r].logged) = run[r].error
                   /\ DoneBefore(run[r], run[r].error)
            /\ run[r].settled = "pending" => run[r].error = "none" /\ run[r].logged = <<>>

\* C4 witness: an embedding call failed in the second file, and run rejected
\* with that error after logging it.
C4_Witness ==
    \E r \in Runs :
        /\ mode = "lib"
        /\ run[r].settled = "rejected"
        /\ run[r].error = "embed"
        /\ run[r].logged = <<"embed">>
        /\ run[r].done.reads = 1
        /\ run[r].calls = <<>>

\* every batch of the call was upserted and the working copy removed
Completed(rec) ==
    /\ rec.done.find
    /\ rec.done.reads = Len(rec.markdownFiles)
    /\ rec.done.upserts = CeilDiv(Len(rec.allChunks), batchSize)
    /\ rec.done.cleanup

\* C5: a script exits with a non-zero status when a stage failed (or the
\* repository argument is missing), and with status zero when all batches were
\* upserted and the working copy was removed.
C5_ExitStatus ==
    \A r \in Runs :
        run[r].pc = "exited" =>
            /\ run[r].error \notin {"none", "info"} => run[r].exitCode # 0
            /\ Completed(run[r]) => run[r].exitCode = 0

\* C6: every upsert call of a run carries the namespace derived from that run's
\* own repoUrl.
C6_OwnNamespace ==
    \A r \in Runs : \A j \in 1..Len(run[r].calls) :
        run[r].calls[j].namespace = DeriveNamespace(run[r].repoUrl)

\* the final '/'-separated segment of repoUrl without a trailing ".git"
TrailingSegment(repoUrl) ==
    LET seg == Pop(Split(repoUrl, "/"))
    IN  IF EndsWith(seg, DotGit) THEN SubSeq(seg, 1, Len(seg) - Len(DotGit)) ELSE seg

\* C7: the namespace of a run is the final segment of repoUrl with a trailing
\* ".git" removed and nothing else changed.
C7_NamespaceIsTrailingSegment ==
    \A r \in Runs :
        run[r].pc \notin {"idle", "gone"} /\ run[r].error # "noarg" =>
            run[r].repoName = TrailingSegment(run[r].repoUrl)

RECURSIVE TextsOf(_, _)
\* the chunk texts of the first n of the paths, file after file
TextsOf(paths, n) ==
    IF n = 0 THEN <<>>
    ELSE TextsOf(paths, n - 1) \o tree[Lookup(tree, paths[n])].chunks

\* C8: without an embedding provider every chunk record has data, the chunk's
\* text, and no vector; with a provider it has data and the vector the provider
\* returned for that text; in both its id is the hash of its data.
C8_RecordShape ==
    \A r \in Runs :
        /\ [k \in 1..Len(run[r].allChunks) |-> run[r].allChunks[k].data]
               = TextsOf(run[r].markdownFiles, run[r].done.reads)
        /\ \A k \in 1..Len(run[r].allChunks) :
               LET rec == run[r].allChunks[k]
               IN  /\ rec.id = Md5(rec.data)
                   /\ IF useOpenAI
                      THEN /\ DOMAIN rec = {"id", "metadata", "vector", "data"}
                           /\ rec.vector = embedDocuments(rec.data)
                      ELSE DOMAIN rec = {"id", "metadata", "data"}

\* C8 witness: with a provider, the three chunks of two files carry their own
\* vectors.
C8_Witness ==
    \E r \in Runs :
        /\ useOpenAI
        /\ Len(run[r].allChunks) = 3
        /\ run[r].allChunks[1].vector # run[r].allChunks[3].vector

RECURSIVE PathOf(_, _)
\* the path of entry k of the clone
PathOf(t, k) ==
    IF t[k].parent = 0 THEN Append(TempDir, t[k].name)
    ELSE Append(PathOf(t, t[k].parent), t[k].name)

RECURSIVE Ancestors(_, _)
\* the directories entry k lies in
Ancestors(t, k) ==
    IF t[k].parent = 0 THEN {} ELSE {t[k].parent} \cup Ancestors(t, t[k].parent)

\* the Markdown files reached through directories whose names begin with no dot
VisibleMarkdown(t) ==
    {PathOf(t, k) : k \in {j \in 1..Len(t) :
        /\ ~t[j].isDir
        /\ MatchesMarkdown(t[j].name)
        /\ \A a \in Ancestors(t, j) : ~StartsWith(t[a].name, Dot)}}

\* C9: discovery returns exactly the .md and .mdx files that lie under the root
\* through directories none of whose names begins with a dot, and nothing that
\* lies inside a directory whose name begins with a dot.
C9_DiscoveryExact ==
    \A r \in Runs :
        run[r].done.find =>
            /\ {run[r].markdownFiles[k] : k \in 1..Len(run[r].markdownFiles)}
                   = VisibleMarkdown(tree)
            /\ \A k \in 1..Len(run[r].markdownFiles) :
                   \A j \in 2..(Len(run[r].markdownFiles[k]) - 1) :
                       ~StartsWith(run[r].markdownFiles[k][j], Dot)

\* the ids of a list of chunk records, in order
IdsOf(chunks) == [k \in 1..Len(chunks) |-> chunks[k].id]

\* call r succeeded, began after call r - 1 had succeeded, and used its namespace
Successive(r) ==
    /\ r - 1 \in Runs
    /\ Succeeded(r)
    /\ r - 1 \in run[r].after
    /\ run[r - 1].repoName = run[r].repoName

\* C10: of two successive successful runs over the same source and namespace,
\* the second gives every chunk the id the first gave it, and leaves in the
\* namespace the set of ids the first left, each id once.
C10_ReindexIdempotent ==
    \A r \in Runs :
        Successive(r) =>
            /\ IdsOf(run[r].allChunks) = IdsOf(run[r - 1].allChunks)
            /\ run[r].snap = run[r - 1].snap
            /\ \A e1, e2 \in store :
                   e1.ns = e2.ns /\ e1.rec.id = e2.rec.id => e1 = e2

\* C10 witness: the second of two successive runs stored three chunks again,
\* with a later timestamp.
C10_Witness ==
    \E r \in Runs :
        /\ Successive(r)
        /\ Len(run[r].allChunks) = 3
        /\ Cardinality(run[r].snap) = 3
        /\ run[r].allChunks[1].metadata.timestamp
               > run[r - 1].allChunks[1].metadata.timestamp

C14_NoUpsertBeforeAllProcessed ==
    \A r \in Runs :
        /\ run[r].calls # <<>> =>
               /\ run[r].done.clone
               /\ run[r].done.find
               /\ run[r].done.reads = Len(run[r].markdownFiles)
               /\ run[r].pending = {}
               /\ useOpenAI => run[r].done.embeds = Len(run[r].allChunks)
               /\ [k \in 1..Len(run[r].allChunks) |-> run[r].allChunks[k].data]
                      = TextsOf(run[r].markdownFiles, Len(run[r].markdownFiles))
        /\ run[r].error \in {"noarg", "rm", "clone", "find", "read", "embed"} =>
               run[r].calls = <<>> /\ run[r].done.upserts = 0

\* C14 witness: an embedding call of the second file failed after the first
\* file's chunks were gathered, and nothing was sent.
C14_Witness ==
    \E r \in Runs :
        /\ run[r].error = "embed"
        /\ run[r].done.reads = 1
        /\ Len(run[r].allChunks) = 2
        /\ run[r].calls = <<>>
        /\ store = {}

RECURSIVE PairsOf(_, _)
\* <<path, text>> of every chunk of the first n of the paths, file after file
PairsOf(paths, n) ==
    IF n = 0 THEN <<>>
    ELSE PairsOf(paths, n - 1)
             \o [k \in 1..Len(tree[Lookup(tree, paths[n])].chunks) |->
                    <<paths[n], tree[Lookup(tree, paths[n])].chunks[k]>>]

\* C15: the records sent, read across the upsert calls in call order, are the
\* chunks of the discovered files in discovery order, each file's in document
\* order; only the last call may be outstanding and every call before it has
\* succeeded; the progress lines are those of the calls that have succeeded,
\* <<k, ceil(n / batchSize)>> for the k-th.
C15_SequentialInOrder ==
    \A r \in Runs :
        LET sent == Concat(run[r].calls)
            m == Len(run[r].calls)
        IN  /\ [k \in 1..Len(sent) |-> <<sent[k].metadata.filePath, sent[k].data>>]
                   = SubSeq(PairsOf(run[r].markdownFiles, run[r].done.reads),
                            1, Len(sent))
            /\ m > 0 => Len(sent) = Min(m * batchSize, Len(run[r].allChunks))
            /\ \A j \in 1..(m - 1) : run[r].calls[j].status = "ok"
            /\ run[r].progress
                   = [k \in 1..run[r].done.upserts |->
                         <<k, CeilDiv(Len(run[r].allChunks), batchSize)>>]
            /\ run[r].done.upserts
                   = Cardinality({j \in 1..m : run[r].calls[j].status = "ok"})

\* C15 witness: the second call is outstanding, after the first succeeded and
\* its progress line was written, over chunks of two files.
C15_Witness ==
    \E r \in Runs :
        /\ Len(run[r].calls) = 2
        /\ run[r].calls[1].status = "ok"
        /\ run[r].calls[2].status = "sent"
        /\ run[r].progress = <<<<1, 2>>>>
        /\ run[r].calls[1].batch[1].metadata.filePath
               # run[r].calls[2].batch[1].metadata.filePath

\* C16: every path file discovery returns names an entry that is no directory.
C16_NoDirectoryReturned ==
    \A r \in Runs :
        run[r].done.find =>
            \A k \in 1..Len(run[r].markdownFiles) :
                ~tree[Lookup(tree, run[r].markdownFiles[k])].isDir
====
